---- MODULE Spec2Model ----
(***************************************************************************)
(* HisaabKitaab: account resolution, membership management and the         *)
(* transaction entry points, over the tables profiles, accounts,           *)
(* account_members and transactions.                                       *)
(*                                                                         *)
(* A route handler runs as a sequence of awaited database calls.  Each     *)
(* awaited call is one step: an operator that maps a world (the tables and *)
(* the handler's frame of local variables) to the set of worlds the call   *)
(* can produce.  Run composes the steps of one invocation to completion;   *)
(* the sequential specifications take a whole handler as one action, the   *)
(* concurrent ones interleave the steps of two invocations.                *)
(*                                                                         *)
(* Statements whose result the code does not inspect are modelled as       *)
(* succeeding; inserts whose error the code handles may also fail.         *)
(***************************************************************************)
EXTENDS Integers, FiniteSets, Sequences, TLC

\* ------------------------------------------------------------------ bounds
\* Rows ever inserted into each table (ids are never reused).
MaxProfiles == 2
MaxAccounts == 3
MaxMembers == 4
MaxTx == 2
MaxCalls == 2
\* Instants of the clock; scheduled_at and now range over 0..MaxTime.
MaxTime == 1
\* tool_use blocks in one model response.
MaxToolBlocks == 2

\* ------------------------------------------------------- external identities
\* Users known to the identity provider, and the primary e-mail address the
\* provider reports for each (client.users.getUser).
Users == {"u1", "u2"}

ClerkEmail(u) == CASE u = "u1" -> "A@x" [] OTHER -> "b@x"

\* String.prototype.toLowerCase on the addresses that occur.
ToLower(e) == CASE e = "A@x" -> "a@x" [] e = "B@x" -> "b@x" [] OTHER -> e

\* String.prototype.trim.
Trim(e) == CASE e = " c@x" -> "c@x" [] OTHER -> e

\* email.includes("@")
HasAt(e) == e \in {"A@x", "a@x", "B@x", "b@x", " c@x", "c@x"}

NULL == 0

MemberRole == {"owner", "admin", "member", "viewer"}

AccountMode == {"individual", "family", "shop"}

TransactionSource == {"manual", "bill_scan", "voice", "auto"}

\* Request slots of the concurrent specifications.
Procs == {1, 2}

\* --------------------------------------------------------------- variables
VARIABLES profiles, accounts, members, transactions,
          lastProfileId, lastAccountId, lastMemberId, lastTxId,
          clerk, req,
          scheduled_calls, lastCallId, now

vars == <<profiles, accounts, members, transactions,
          lastProfileId, lastAccountId, lastMemberId, lastTxId, clerk, req,
          scheduled_calls, lastCallId, now>>

\* The frame of an invocation: which handler runs, where it is (pc), where
\* getAccountForUser returns to (cont), and the handler's local variables.
IdleFrame ==
  [op |-> "idle", pc |-> "idle", cont |-> "none", user |-> "none",
   profile |-> NULL, email |-> "", account |-> NULL, role |-> "none",
   via |-> "none", error |-> FALSE, status |-> 0,
   membership |-> [account_id |-> NULL, role |-> "none"],
   memberships |-> {},
   inEmail |-> "", inRole |-> "none", memberId |-> NULL,
   invitedProfile |-> NULL, allMembers |-> {}, pendingInvites |-> {},
   ownedAccounts |-> {}, ownedAccount |-> NULL,
   newRole |-> "none", mode |-> "none", source |-> "none", txLeft |-> 0,
   iterations |-> 0, modelCalls |-> 0, stopReason |-> "none",
   toolUseBlocks |-> 0, toolName |-> "none", toolResults |-> FALSE,
   textContent |-> FALSE, amount |-> 0,
   scheduledAt |-> NULL - 1, dueCalls |-> {}, call |-> NULL,
   svixHeaders |-> FALSE, signature |-> FALSE, eventType |-> "none"]

Init ==
  /\ profiles = {}
  /\ accounts = {}
  /\ members = {}
  /\ transactions = {}
  /\ lastProfileId = 0
  /\ lastAccountId = 0
  /\ lastMemberId = 0
  /\ lastTxId = 0
  /\ clerk = Users
  /\ req = [p \in Procs |-> IdleFrame]
  /\ scheduled_calls = {}
  /\ lastCallId = 0
  /\ now = 0

\* The world an invocation with frame f acts on.
World(f) ==
  [profiles |-> profiles, accounts |-> accounts, members |-> members,
   transactions |-> transactions, lastProfileId |-> lastProfileId,
   lastAccountId |-> lastAccountId, lastMemberId |-> lastMemberId,
   lastTxId |-> lastTxId, scheduled_calls |-> scheduled_calls,
   lastCallId |-> lastCallId, now |-> now, f |-> f]

\* The tables become those of world w.
Commit(w) ==
  /\ profiles' = w.profiles
  /\ accounts' = w.accounts
  /\ members' = w.members
  /\ transactions' = w.transactions
  /\ lastProfileId' = w.lastProfileId
  /\ lastAccountId' = w.lastAccountId
  /\ lastMemberId' = w.lastMemberId
  /\ lastTxId' = w.lastTxId
  /\ scheduled_calls' = w.scheduled_calls
  /\ lastCallId' = w.lastCallId

\* ------------------------------------------------------------ query helpers
\* .order(<creation time>, ascending).limit(1): rows get increasing ids in
\* insertion order, so the earliest row is the one with the least id.
Earliest(S) == CHOOSE r \in S : \A s \in S : r.id <= s.id

\* .single(): the row when exactly one matches, otherwise no data.
Single(S) == IF Cardinality(S) = 1 THEN CHOOSE r \in S : TRUE ELSE [id |-> NULL]

\* The rows of the (account_id, profile_id) conflict target of the owner upsert.
MemberOf(ms, a, pr) == {m \in ms : m.account_id = a /\ m.profile_id = pr}

\* The owner row written by the upsert and by the inserts after account creation.
OwnerRow(i, a, pr, e) ==
  [id |-> i, account_id |-> a, profile_id |-> pr, role |-> "owner",
   accepted |-> TRUE, invited_email |-> e]

\* upsert(owner row, onConflict: account_id,profile_id)
UpsertOwnerRow(w, a, pr, e) ==
  LET old == MemberOf(w.members, a, pr)
  IN IF old # {}
     THEN {[w EXCEPT !.members = (@ \ old) \cup
                       {OwnerRow(m.id, m.account_id, m.profile_id, e) : m \in old}]}
     ELSE IF w.lastMemberId < MaxMembers
     THEN {[w EXCEPT !.members = @ \cup {OwnerRow(w.lastMemberId + 1, a, pr, e)},
                     !.lastMemberId = @ + 1]}
     ELSE {}

\* insert(owner row)
InsertOwnerRow(w, a, pr, e) ==
  IF w.lastMemberId < MaxMembers
  THEN {[w EXCEPT !.members = @ \cup {OwnerRow(w.lastMemberId + 1, a, pr, e)},
                  !.lastMemberId = @ + 1]}
  ELSE {}

\* insert into profiles from the identity provider's data.
InsertProfile(w) ==
  IF w.lastProfileId < MaxProfiles
  THEN {[w EXCEPT !.profiles = @ \cup
                    {[id |-> w.lastProfileId + 1, clerk_user_id |-> w.f.user,
                      email |-> ToLower(ClerkEmail(w.f.user))]},
                  !.lastProfileId = @ + 1,
                  !.f.profile = w.lastProfileId + 1,
                  !.f.email = ToLower(ClerkEmail(w.f.user))]}
  ELSE {}

\* insert into accounts, owned by the frame's profile.
InsertAccount(w, md) ==
  IF w.lastAccountId < MaxAccounts
  THEN {[w EXCEPT !.accounts = @ \cup
                    {[id |-> w.lastAccountId + 1, owner_id |-> w.f.profile, mode |-> md]},
                  !.lastAccountId = @ + 1,
                  !.f.account = w.lastAccountId + 1]}
  ELSE {}

Goto(S, l) == {[w EXCEPT !.f.pc = l] : w \in S}

Answer(S, st) == {[w EXCEPT !.f.pc = "done", !.f.status = st] : w \in S}

\* ------------------------------------------------------- getAccountForUser
\* The handler calls getAccountForUser and continues at l when it returns.
CallGetAccount(f, l) ==
  [f EXCEPT !.pc = "g_profile", !.cont = l, !.profile = NULL, !.email = "",
            !.account = NULL, !.role = "none", !.via = "none", !.error = FALSE]

Return(w, acc, rl, how, err) ==
  [w EXCEPT !.f.pc = w.f.cont, !.f.cont = "none", !.f.account = acc, !.f.role = rl,
            !.f.via = how, !.f.error = err,
            !.f.membership = IdleFrame.membership, !.f.memberships = {}]

GetProfileNeverFound(w) == {[w EXCEPT !.f.pc = "g_newprofile"]}

\* 1. select the profile by clerk_user_id (.single()).
GetProfile(w) ==
  LET row == Single({r \in w.profiles : r.clerk_user_id = w.f.user})
  IN IF row.id # NULL
     THEN {[w EXCEPT !.f.pc = "g_invited", !.f.profile = row.id, !.f.email = row.email]}
     ELSE {[w EXCEPT !.f.pc = "g_newprofile"]}

\* 1b. no profile: insert one; return the error when the insert fails.
CreateProfile(w) ==
  Goto(InsertProfile(w), "g_invited") \cup {Return(w, NULL, "none", "none", TRUE)}

\* 2. the accepted memberships with a role other than owner.
InvitedMemberships(ms, pr) ==
  {m \in ms : m.profile_id = pr /\ m.accepted /\ m.role # "owner"}

FindInvitedSkipped(w) == {[w EXCEPT !.f.pc = "g_owned"]}

FindInvited(w) ==
  LET rows == InvitedMemberships(w.members, w.f.profile)
  IN IF rows # {}
     THEN {[w EXCEPT !.f.pc = "g_family",
                     !.f.membership = [account_id |-> Earliest(rows).account_id,
                                       role |-> Earliest(rows).role]]}
     ELSE {[w EXCEPT !.f.pc = "g_owned"]}

\* 2b. fetch that membership's account; fall through when there is none.
FetchFamily(w) ==
  IF \E a \in w.accounts : a.id = w.f.membership.account_id
  THEN {Return(w, w.f.membership.account_id, w.f.membership.role, "invited", FALSE)}
  ELSE {[w EXCEPT !.f.pc = "g_owned"]}

\* 3. the earliest-created account the profile owns.
OwnedAccounts(as, pr) == {a \in as : a.owner_id = pr}

FindOwned(w) ==
  LET owned == OwnedAccounts(w.accounts, w.f.profile)
  IN IF owned # {}
     THEN {[w EXCEPT !.f.pc = "g_upsert", !.f.account = Earliest(owned).id]}
     ELSE {[w EXCEPT !.f.pc = "g_members"]}

\* 3b. upsert the owner's membership row and return the owned account.
UpsertOwner(w) ==
  {Return(v, v.f.account, "owner", "owned", FALSE) :
     v \in UpsertOwnerRow(w, w.f.account, w.f.profile, w.f.email)}

\* 4. all accepted memberships of the profile.
AcceptedMemberships(ms, pr) == {m \in ms : m.profile_id = pr /\ m.accepted}

FindMemberships(w) ==
  LET rows == AcceptedMemberships(w.members, w.f.profile)
  IN IF rows # {}
     THEN {[w EXCEPT !.f.pc = "g_accounts",
                     !.f.memberships = {[id |-> m.id, account_id |-> m.account_id,
                                         role |-> m.role] : m \in rows}]}
     ELSE {[w EXCEPT !.f.pc = "g_create"]}

\* roleMap[account_id]: later memberships overwrite earlier ones.
RoleMap(ms, a) ==
  LET of == {m \in ms : m.account_id = a}
  IN IF of = {} THEN "member"
     ELSE (CHOOSE m \in of : \A n \in of : n.id <= m.id).role

\* 4b. the accounts of those memberships; the query has no ORDER BY, so
\*     accounts[0] is any of the rows found.
FetchAccounts(w) ==
  LET found == {a \in w.accounts : \E m \in w.f.memberships : m.account_id = a.id}
  IN IF found # {}
     THEN {Return(w, chosen.id, RoleMap(w.f.memberships, chosen.id), "member", FALSE) :
             chosen \in found}
     ELSE {[w EXCEPT !.f.pc = "g_create", !.f.memberships = {}]}

\* 5. nothing found: insert a personal account.
NewAccountMode == "individual"

CreateAccount(w) ==
  Goto(InsertAccount(w, NewAccountMode), "g_addowner")
    \cup {Return(w, NULL, "none", "none", TRUE)}

\* 5b. insert the owner's membership row of the new account and return it.
AddOwnerMember(w) ==
  {Return(v, v.f.account, "owner", "created", FALSE) :
     v \in InsertOwnerRow(w, w.f.account, w.f.profile, w.f.email)}

GetAccountForUser(w) ==
  CASE w.f.pc = "g_profile" -> GetProfile(w)
    [] w.f.pc = "g_newprofile" -> CreateProfile(w)
    [] w.f.pc = "g_invited" -> FindInvited(w)
    [] w.f.pc = "g_family" -> FetchFamily(w)
    [] w.f.pc = "g_owned" -> FindOwned(w)
    [] w.f.pc = "g_upsert" -> UpsertOwner(w)
    [] w.f.pc = "g_members" -> FindMemberships(w)
    [] w.f.pc = "g_accounts" -> FetchAccounts(w)
    [] w.f.pc = "g_create" -> CreateAccount(w)
    [] w.f.pc = "g_addowner" -> AddOwnerMember(w)
    [] OTHER -> {}

\* ------------------------------------------------------ aggregation (GET)
AggregationOps == {"dashboard-stats", "analytics", "member-analytics", "export-statement"}

\* auth() succeeded; the handler calls getAccountForUser first.
AggregationRequest(op, u) ==
  CallGetAccount([IdleFrame EXCEPT !.op = op, !.user = u], "q_select")

\* Variant: the endpoint deletes the transactions it has read.
AggregateAndPrune(w) ==
  Answer({[w EXCEPT !.transactions = {t \in @ : t.account_id # w.f.account}]}, 200)

\* The endpoint's own queries only select.  It answers 200 (export-statement:
\* 404 when account resolution failed).
Aggregate(w) ==
  Answer({w}, IF (w.f.error \/ w.f.profile = NULL \/ w.f.account = NULL)
                 /\ w.f.op = "export-statement" THEN 404 ELSE 200)

\* ---------------------------------------------------- POST /api/ensure-profile
EnsureProfileRequest(u) ==
  [IdleFrame EXCEPT !.op = "ensure-profile", !.pc = "e_profile", !.user = u]

EnsureGetProfile(w) ==
  LET row == Single({r \in w.profiles : r.clerk_user_id = w.f.user})
  IN IF row.id # NULL
     THEN {[w EXCEPT !.f.pc = "e_pending", !.f.profile = row.id, !.f.email = row.email]}
     ELSE {[w EXCEPT !.f.pc = "e_newprofile"]}

EnsureCreateProfile(w) ==
  Goto(InsertProfile(w), "e_pending") \cup Answer({[w EXCEPT !.f.error = TRUE]}, 500)

\* linkPendingInvitations: the rows invited by this e-mail with no profile yet.
PendingInvites(ms, e) ==
  {m \in ms : m.invited_email = ToLower(e) /\ m.profile_id = NULL}

SelectPendingInvites(w) ==
  LET rows == IF w.f.email = "" THEN {}
              ELSE {m.id : m \in PendingInvites(w.members, w.f.email)}
  IN IF rows = {} THEN {[w EXCEPT !.f.pc = "e_owned"]}
     ELSE {[w EXCEPT !.f.pc = "e_link", !.f.pendingInvites = rows]}

LinkInvitationUnaccepted(w) ==
  {[w EXCEPT !.members =
               {IF m.id = i /\ MemberOf(w.members, m.account_id, w.f.profile) = {}
                THEN [m EXCEPT !.profile_id = w.f.profile]
                ELSE m : m \in w.members},
             !.f.pendingInvites = @ \ {i},
             !.f.pc = IF w.f.pendingInvites = {i} THEN "e_owned" ELSE "e_link"] :
     i \in w.f.pendingInvites}

\* One update of the loop: link the invitation and accept it.  The update is
\* rejected when the profile already has a row in that account.
LinkInvitation(w) ==
  {[w EXCEPT !.members =
               {IF m.id = i /\ MemberOf(w.members, m.account_id, w.f.profile) = {}
                THEN [m EXCEPT !.profile_id = w.f.profile, !.accepted = TRUE]
                ELSE m : m \in w.members},
             !.f.pendingInvites = @ \ {i},
             !.f.pc = IF w.f.pendingInvites = {i} THEN "e_owned" ELSE "e_link"] :
     i \in w.f.pendingInvites}

\* select id from accounts where owner_id = profile, limit 1 (no ORDER BY).
EnsureFindOwned(w) ==
  LET owned == OwnedAccounts(w.accounts, w.f.profile)
  IN IF owned # {}
     THEN {[w EXCEPT !.f.pc = "e_upsert", !.f.account = a.id] : a \in owned}
     ELSE {[w EXCEPT !.f.pc = "e_member"]}

EnsureUpsertOwner(w) ==
  Answer(UpsertOwnerRow(w, w.f.account, w.f.profile, w.f.email), 200)

EnsureFindMember(w) ==
  IF AcceptedMemberships(w.members, w.f.profile) # {}
  THEN Answer({w}, 200)
  ELSE {[w EXCEPT !.f.pc = "e_create"]}

\* The insert's error is not inspected: without a new row the handler answers 200.
EnsureCreateAccount(w) ==
  Goto(InsertAccount(w, NewAccountMode), "e_addowner") \cup Answer({w}, 200)

EnsureAddOwnerMember(w) ==
  Answer(InsertOwnerRow(w, w.f.account, w.f.profile, w.f.email), 200)

EnsureProfile(w) ==
  CASE w.f.pc = "e_profile" -> EnsureGetProfile(w)
    [] w.f.pc = "e_newprofile" -> EnsureCreateProfile(w)
    [] w.f.pc = "e_pending" -> SelectPendingInvites(w)
    [] w.f.pc = "e_link" -> LinkInvitation(w)
    [] w.f.pc = "e_owned" -> EnsureFindOwned(w)
    [] w.f.pc = "e_upsert" -> EnsureUpsertOwner(w)
    [] w.f.pc = "e_member" -> EnsureFindMember(w)
    [] w.f.pc = "e_create" -> EnsureCreateAccount(w)
    [] w.f.pc = "e_addowner" -> EnsureAddOwnerMember(w)
    [] OTHER -> {}

\* ------------------------------------------- POST /api/onboarding (set-mode)
OnboardingRequest(u, md) ==
  [IdleFrame EXCEPT !.op = "onboarding", !.pc = "o_profile", !.user = u, !.mode = md]

OnboardingGetProfile(w) ==
  LET row == Single({r \in w.profiles : r.clerk_user_id = w.f.user})
  IN IF row.id # NULL
     THEN {[w EXCEPT !.f.pc = "o_create", !.f.profile = row.id]}
     ELSE Answer({w}, 404)

\* The account is inserted without looking for one the profile already owns.
OnboardingCreateAccount(w) ==
  Goto(InsertAccount(w, w.f.mode), "o_addowner")
    \cup Answer({[w EXCEPT !.f.error = TRUE]}, 500)

\* The owner row is inserted without an invited_email.
OnboardingAddOwnerMember(w) ==
  Answer(InsertOwnerRow(w, w.f.account, w.f.profile, ""), 200)

Onboarding(w) ==
  CASE w.f.pc = "o_profile" -> OnboardingGetProfile(w)
    [] w.f.pc = "o_create" -> OnboardingCreateAccount(w)
    [] w.f.pc = "o_addowner" -> OnboardingAddOwnerMember(w)
    [] OTHER -> {}

\* ------------------------------------------------------ POST /api/members
\* !email || !email.includes("@") answers 400 before anything is read.
AddMemberRequest(u, e, r) ==
  LET f == [IdleFrame EXCEPT !.op = "members-post", !.user = u, !.inEmail = e, !.inRole = r]
  IN IF e = "" \/ ~HasAt(e)
     THEN [f EXCEPT !.pc = "done", !.status = 400]
     ELSE CallGetAccount(f, "m_auth")

\* email.toLowerCase().trim()
NormalizedEmail(e) == Trim(ToLower(e))

CanManageAnyRole(rl) == TRUE

CanManage(rl) == rl \in {"owner", "admin"}

\* 500 without an account, 403 unless owner or admin, 409 for the caller's own address.
AddMemberAuthorize(w) ==
  IF w.f.error \/ w.f.account = NULL \/ w.f.profile = NULL THEN Answer({w}, 500)
  ELSE IF ~CanManage(w.f.role) THEN Answer({w}, 403)
  ELSE IF ToLower(w.f.email) = NormalizedEmail(w.f.inEmail) THEN Answer({w}, 409)
  ELSE {[w EXCEPT !.f.pc = "m_all"]}

SelectAllMembersUnchecked(w) ==
  {[w EXCEPT !.f.pc = "m_lookup",
             !.f.allMembers =
               {m.profile_id : m \in {r \in w.members : r.account_id = w.f.account}}]}

\* The rows of the account; 409 when one was invited by this address.
SelectAllMembers(w) ==
  LET rows == {m \in w.members : m.account_id = w.f.account}
  IN IF \E m \in rows : ToLower(m.invited_email) = NormalizedEmail(w.f.inEmail)
     THEN Answer({w}, 409)
     ELSE {[w EXCEPT !.f.pc = "m_lookup",
                     !.f.allMembers = {m.profile_id : m \in rows}]}

\* A profile with this address (limit 1); 409 when it already is a member.
LookupInvitedProfile(w) ==
  LET found == {r.id : r \in {r \in w.profiles : r.email = NormalizedEmail(w.f.inEmail)}}
  IN IF found = {} THEN {[w EXCEPT !.f.pc = "m_insert", !.f.invitedProfile = NULL]}
     ELSE UNION {IF i \in w.f.allMembers THEN Answer({w}, 409)
                 ELSE {[w EXCEPT !.f.pc = "m_insert", !.f.invitedProfile = i]} :
                 i \in found}

InvitedRowAlwaysAccepted(i, a, pr, rl, e) ==
  [id |-> i, account_id |-> a, profile_id |-> pr,
   role |-> IF rl = "undefined" THEN "member" ELSE rl,
   accepted |-> TRUE, invited_email |-> e]

\* role: memberRole || "member"; accepted and linked when the profile exists.
InvitedRow(i, a, pr, rl, e) ==
  [id |-> i, account_id |-> a, profile_id |-> pr,
   role |-> IF rl = "undefined" THEN "member" ELSE rl,
   accepted |-> (pr # NULL), invited_email |-> e]

\* Insert the row; 500 when the insert is rejected (the profile got a row in
\* the account in the meantime).
InsertMember(w) ==
  IF w.f.invitedProfile # NULL
     /\ MemberOf(w.members, w.f.account, w.f.invitedProfile) # {}
  THEN Answer({w}, 500)
  ELSE IF w.lastMemberId >= MaxMembers THEN {}
  ELSE LET v == [w EXCEPT !.members = @ \cup
                            {InvitedRow(w.lastMemberId + 1, w.f.account,
                                        w.f.invitedProfile, w.f.inRole,
                                        NormalizedEmail(w.f.inEmail))},
                          !.lastMemberId = @ + 1,
                          !.f.memberId = w.lastMemberId + 1]
       IN IF w.f.invitedProfile # NULL THEN Goto({v}, "c_select") ELSE Answer({v}, 200)

\* cleanupPersonalAccount: the accounts the invitee owns.
CleanupSelectOwned(w) ==
  LET owned == {a.id : a \in OwnedAccounts(w.accounts, w.f.invitedProfile)}
  IN IF owned = {} THEN Answer({w}, 200)
     ELSE {[w EXCEPT !.f.pc = "c_next", !.f.ownedAccounts = owned]}

\* for (const ownedAccount of ownedAccounts): the family account is skipped.
CleanupNext(w) ==
  IF w.f.ownedAccounts = {} THEN Answer({w}, 200)
  ELSE {[w EXCEPT !.f.ownedAccounts = @ \ {a},
                  !.f.ownedAccount = a,
                  !.f.pc = IF a = w.f.account THEN "c_next" ELSE "c_move"] :
          a \in w.f.ownedAccounts}

CleanupMoveSkipped(w) == {[w EXCEPT !.f.pc = "c_delmember"]}

\* Move the transactions of the personal account to the family account.
CleanupMoveTransactions(w) ==
  {[w EXCEPT !.transactions =
               {IF t.account_id = w.f.ownedAccount
                THEN [t EXCEPT !.account_id = w.f.account] ELSE t : t \in w.transactions},
             !.f.pc = "c_delmember"]}

\* Delete the invitee's membership row of the personal account.
CleanupDeleteMember(w) ==
  {[w EXCEPT !.members = @ \ MemberOf(w.members, w.f.ownedAccount, w.f.invitedProfile),
             !.f.pc = "c_delaccount"]}

\* delete from accounts where id = a.  Nothing else is deleted with it.
DeleteAccount(as, a) == {x \in as : x.id # a}

CleanupDeleteAccount(w) ==
  {[w EXCEPT !.accounts = DeleteAccount(w.accounts, w.f.ownedAccount),
             !.f.pc = "c_next"]}

AddMember(w) ==
  CASE w.f.pc = "m_auth" -> AddMemberAuthorize(w)
    [] w.f.pc = "m_all" -> SelectAllMembers(w)
    [] w.f.pc = "m_lookup" -> LookupInvitedProfile(w)
    [] w.f.pc = "m_insert" -> InsertMember(w)
    [] w.f.pc = "c_select" -> CleanupSelectOwned(w)
    [] w.f.pc = "c_next" -> CleanupNext(w)
    [] w.f.pc = "c_move" -> CleanupMoveTransactions(w)
    [] w.f.pc = "c_delmember" -> CleanupDeleteMember(w)
    [] w.f.pc = "c_delaccount" -> CleanupDeleteAccount(w)
    [] OTHER -> {}

\* ---------------------------------------------------- DELETE /api/members
\* 400 without a memberId, before anything is read.
RemoveMemberRequest(u, i) ==
  LET f == [IdleFrame EXCEPT !.op = "members-delete", !.user = u, !.memberId = i]
  IN IF i = NULL THEN [f EXCEPT !.pc = "done", !.status = 400]
     ELSE CallGetAccount(f, "r_auth")

RemoveMemberAuthorize(w) ==
  IF w.f.error \/ w.f.account = NULL THEN Answer({w}, 500)
  ELSE IF ~CanManage(w.f.role) THEN Answer({w}, 403)
  ELSE {[w EXCEPT !.f.pc = "r_target"]}

\* Variant: the target row's role is not looked at.
RemoveMemberTargetAnyRole(w) ==
  LET t == Single({m \in w.members : m.id = w.f.memberId /\ m.account_id = w.f.account})
  IN IF t.id = NULL THEN Answer({w}, 404)
     ELSE {[w EXCEPT !.f.pc = "r_delete"]}

\* The target row in the caller's account: 404 when absent, 403 for an owner row.
RemoveMemberTarget(w) ==
  LET t == Single({m \in w.members : m.id = w.f.memberId /\ m.account_id = w.f.account})
  IN IF t.id = NULL THEN Answer({w}, 404)
     ELSE IF t.role = "owner" THEN Answer({w}, 403)
     ELSE {[w EXCEPT !.f.pc = "r_delete"]}

RemoveMemberDelete(w) ==
  Answer({[w EXCEPT !.members = {m \in @ : m.id # w.f.memberId}]}, 200)

RemoveMember(w) ==
  CASE w.f.pc = "r_auth" -> RemoveMemberAuthorize(w)
    [] w.f.pc = "r_target" -> RemoveMemberTarget(w)
    [] w.f.pc = "r_delete" -> RemoveMemberDelete(w)
    [] OTHER -> {}

\* ----------------------------------------------------- PATCH /api/members
\* (the name update writes profiles.full_name, which is not part of the model)
ValidRoles == {"admin", "member", "viewer"}

\* 400 without a memberId, before anything is read.
PatchMemberRequest(u, i, r) ==
  LET f == [IdleFrame EXCEPT !.op = "members-patch", !.user = u, !.memberId = i,
                             !.newRole = r]
  IN IF i = NULL THEN [f EXCEPT !.pc = "done", !.status = 400]
     ELSE CallGetAccount(f, "p_auth")

PatchMemberAuthorize(w) ==
  IF w.f.error \/ w.f.account = NULL THEN Answer({w}, 500)
  ELSE IF ~CanManage(w.f.role) THEN Answer({w}, 403)
  ELSE {[w EXCEPT !.f.pc = "p_target"]}

\* The target row; the role is updated when it is valid and the row is not an
\* owner row.
PatchMemberTargetAnyRow(w) ==
  LET t == Single({m \in w.members : m.id = w.f.memberId /\ m.account_id = w.f.account})
  IN IF t.id = NULL THEN Answer({w}, 404)
     ELSE IF w.f.newRole # "undefined" /\ w.f.newRole \in ValidRoles
     THEN {[w EXCEPT !.f.pc = "p_role"]}
     ELSE Answer({w}, 200)

PatchMemberTarget(w) ==
  LET t == Single({m \in w.members : m.id = w.f.memberId /\ m.account_id = w.f.account})
  IN IF t.id = NULL THEN Answer({w}, 404)
     ELSE IF w.f.newRole # "undefined" /\ t.role # "owner" /\ w.f.newRole \in ValidRoles
     THEN {[w EXCEPT !.f.pc = "p_role"]}
     ELSE Answer({w}, 200)

PatchMemberRole(w) ==
  Answer({[w EXCEPT !.members = {IF m.id = w.f.memberId
                                 THEN [m EXCEPT !.role = w.f.newRole] ELSE m : m \in @}]},
         200)

PatchMember(w) ==
  CASE w.f.pc = "p_auth" -> PatchMemberAuthorize(w)
    [] w.f.pc = "p_target" -> PatchMemberTarget(w)
    [] w.f.pc = "p_role" -> PatchMemberRole(w)
    [] OTHER -> {}

\* ----------------------------------------------- POST /api/create-transaction
\* !type || !amount answers 400.
CreateTransactionRequest(u, amt, src) ==
  LET f == [IdleFrame EXCEPT !.op = "create-transaction", !.user = u, !.amount = amt,
                             !.source = src]
  IN IF amt = 0 THEN [f EXCEPT !.pc = "done", !.status = 400]
     ELSE CallGetAccount(f, "t_check")

CreateTransactionCheck(w) ==
  IF w.f.error \/ w.f.profile = NULL \/ w.f.account = NULL THEN Answer({w}, 500)
  ELSE {[w EXCEPT !.f.pc = "t_insert"]}

\* Variant: the row is attributed to nobody.
TransactionRowUnattributed(i, a, pr, src) ==
  [id |-> i, account_id |-> a, added_by |-> NULL, source |-> src]

\* The inserted row: account_id: account.id, added_by: profile.id.
TransactionRow(i, a, pr, src) ==
  [id |-> i, account_id |-> a, added_by |-> pr, source |-> src]

InsertTransaction(w, src) ==
  IF w.lastTxId < MaxTx
  THEN {[w EXCEPT !.transactions = @ \cup
                    {TransactionRow(w.lastTxId + 1, w.f.account, w.f.profile, src)},
                  !.lastTxId = @ + 1]}
  ELSE {}

\* source: source || "manual"; 500 when the insert fails.
CreateTransactionInsert(w) ==
  Answer(InsertTransaction(w, IF w.f.source = "undefined" THEN "manual" ELSE w.f.source),
         200)
    \cup Answer({[w EXCEPT !.f.error = TRUE]}, 500)

CreateTransaction(w) ==
  CASE w.f.pc = "t_check" -> CreateTransactionCheck(w)
    [] w.f.pc = "t_insert" -> CreateTransactionInsert(w)
    [] OTHER -> {}

\* ------------------------------------------------- voice route, autoSave
\* n: the transactions extracted from the recording.
VoiceRequest(u, n) ==
  CallGetAccount([IdleFrame EXCEPT !.op = "voice", !.user = u, !.txLeft = n], "v_check")

VoiceCheck(w) ==
  IF w.f.profile # NULL /\ w.f.account # NULL /\ ~w.f.error
  THEN {[w EXCEPT !.f.pc = "v_save"]}
  ELSE Answer({w}, 200)

\* One round of the loop: the transaction is skipped (low confidence or no
\* amount), or inserted with source "voice"; a failed insert is not saved.
VoiceSave(w) ==
  IF w.f.txLeft = 0 THEN Answer({w}, 200)
  ELSE {[w EXCEPT !.f.txLeft = @ - 1]}
         \cup {[v EXCEPT !.f.txLeft = @ - 1] : v \in InsertTransaction(w, "voice")}

Voice(w) ==
  CASE w.f.pc = "v_check" -> VoiceCheck(w)
    [] w.f.pc = "v_save" -> VoiceSave(w)
    [] OTHER -> {}

\* ----------------------------------------------------- POST /api/make-call
\* scheduledAt absent from the body.
NoTime == 0 - 1

CallStatus == {"pending", "completed", "failed"}

ScheduledCallRow(i, a, pr, at, st) ==
  [id |-> i, account_id |-> a, profile_id |-> pr, scheduled_at |-> at, status |-> st]

InsertScheduledCall(w, at, st) ==
  IF w.lastCallId < MaxCalls
  THEN {[w EXCEPT !.scheduled_calls = @ \cup
                    {ScheduledCallRow(w.lastCallId + 1, w.f.account, w.f.profile, at, st)},
                  !.lastCallId = @ + 1]}
  ELSE {}

\* 400 for a missing or malformed phone number, before anything is read.
MakeCallRequest(u, phoneOk, at) ==
  IF ~phoneOk
  THEN [IdleFrame EXCEPT !.op = "make-call", !.user = u, !.pc = "done", !.status = 400]
  ELSE CallGetAccount([IdleFrame EXCEPT !.op = "make-call", !.user = u,
                                        !.scheduledAt = at], "mc_check")

MakeCallCheck(w) ==
  IF w.f.error \/ w.f.profile = NULL \/ w.f.account = NULL
  THEN Answer({w}, 404)
  ELSE IF w.f.scheduledAt # NoTime THEN Goto({w}, "mc_schedule")
       ELSE Goto({w}, "mc_twilio")

\* scheduledAt given: the row is stored as pending; 500 when the insert fails.
MakeCallSchedule(w) ==
  Answer(InsertScheduledCall(w, w.f.scheduledAt, "pending"), 200)
    \cup Answer({[w EXCEPT !.f.error = TRUE]}, 500)

\* The immediate call: client.calls.create succeeds, or throws into the
\* handler's catch (500, nothing stored).
MakeCallTwilio(w) == Goto({w}, "mc_record") \cup Answer({[w EXCEPT !.f.error = TRUE]}, 500)

\* The call made is recorded as completed, scheduled_at = now.
MakeCallRecord(w) == Answer(InsertScheduledCall(w, w.now, "completed"), 200)

MakeCall(w) ==
  CASE w.f.pc = "mc_check" -> MakeCallCheck(w)
    [] w.f.pc = "mc_schedule" -> MakeCallSchedule(w)
    [] w.f.pc = "mc_twilio" -> MakeCallTwilio(w)
    [] w.f.pc = "mc_record" -> MakeCallRecord(w)
    [] OTHER -> {}

\* ------------------------------------------- GET /api/cron/process-calls
DUE_LIMIT == 10

\* 401 only in production with CRON_SECRET set and another Authorization header.
CronRequest(authorized) ==
  IF authorized
  THEN [IdleFrame EXCEPT !.op = "process-calls", !.pc = "k_select"]
  ELSE [IdleFrame EXCEPT !.op = "process-calls", !.pc = "done", !.status = 401]

\* status = pending, scheduled_at <= now
DueCalls(cs, t) == {c \in cs : c.status = "pending" /\ c.scheduled_at <= t}

\* order by scheduled_at ascending, limit n: the possible result sets.
Limit(S, n) ==
  {T \in SUBSET S :
     /\ Cardinality(T) = (IF Cardinality(S) < n THEN Cardinality(S) ELSE n)
     /\ \A x \in T, y \in S \ T : x.scheduled_at <= y.scheduled_at}

\* The due rows are read once; nothing due answers processed: 0.
CronSelect(w) ==
  UNION {IF T = {} THEN Answer({w}, 200)
         ELSE Goto({[w EXCEPT !.f.dueCalls = T]}, "k_next")
         : T \in Limit(DueCalls(w.scheduled_calls, w.now), DUE_LIMIT)}

\* for (const call of dueCalls): the rows as they were read, in the order
\* read (scheduled_at ascending, ties in either order).
CronNext(w) ==
  IF w.f.dueCalls = {}
  THEN Answer({[w EXCEPT !.f.call = NULL]}, 200)
  ELSE {[w EXCEPT !.f.call = c.id, !.f.dueCalls = @ \ {c}, !.f.pc = "k_call"] :
          c \in {x \in w.f.dueCalls :
                    \A y \in w.f.dueCalls : x.scheduled_at <= y.scheduled_at}}

\* The message is built (with its fallback) and client.calls.create is
\* awaited: it returns, or it throws into the per-call catch.
CronCall(w) == Goto({w}, "k_completed") \cup Goto({w}, "k_failed")

\* update({status}).eq("id", call.id): the row's current status is not tested.
UpdateCallStatus(cs, i, st) ==
  {IF c.id = i THEN [c EXCEPT !.status = st] ELSE c : c \in cs}

CronCompleted(w) ==
  Goto({[w EXCEPT !.scheduled_calls = UpdateCallStatus(@, w.f.call, "completed")]},
       "k_next")

CronFailedKeepsPending(w) == Goto({w}, "k_next")

CronFailed(w) ==
  Goto({[w EXCEPT !.scheduled_calls = UpdateCallStatus(@, w.f.call, "failed")]},
       "k_next")

Cron(w) ==
  CASE w.f.pc = "k_select" -> CronSelect(w)
    [] w.f.pc = "k_next" -> CronNext(w)
    [] w.f.pc = "k_call" -> CronCall(w)
    [] w.f.pc = "k_completed" -> CronCompleted(w)
    [] w.f.pc = "k_failed" -> CronFailed(w)
    [] OTHER -> {}

\* ------------------------------------------------ POST /api/webhooks/clerk
EventTypes == {"user.created", "user.updated", "user.deleted"}

\* Variant: the event is handled whatever the signature.
ClerkWebhookUnverified(u, hdr, sig, type) ==
  [IdleFrame EXCEPT !.op = "clerk-webhook", !.user = u, !.svixHeaders = hdr,
                    !.signature = sig, !.eventType = type, !.pc = "wh_event"]

\* 400 when a svix header is missing; 400 when wh.verify throws.
ClerkWebhook(u, hdr, sig, type) ==
  LET f == [IdleFrame EXCEPT !.op = "clerk-webhook", !.user = u, !.svixHeaders = hdr,
                             !.signature = sig, !.eventType = type]
  IN IF ~hdr \/ ~sig THEN [f EXCEPT !.pc = "done", !.status = 400]
     ELSE [f EXCEPT !.pc = "wh_event"]

\* user.created: the profile is inserted with the address as the identity
\* provider gives it; 500 when the insert fails.
WebhookUserCreated(w) ==
  Answer(IF w.lastProfileId < MaxProfiles
         THEN {[w EXCEPT !.profiles = @ \cup
                           {[id |-> w.lastProfileId + 1, clerk_user_id |-> w.f.user,
                             email |-> ClerkEmail(w.f.user)]},
                         !.lastProfileId = @ + 1]}
         ELSE {}, 200)
    \cup Answer({[w EXCEPT !.f.error = TRUE]}, 500)

\* user.updated: the address is rewritten on the user's rows.
WebhookUserUpdated(w) ==
  Answer({[w EXCEPT !.profiles =
             {IF r.clerk_user_id = w.f.user THEN [r EXCEPT !.email = ClerkEmail(w.f.user)]
              ELSE r : r \in @}]}, 200)

\* user.deleted: the user's profile rows are deleted, nothing else.
WebhookUserDeleted(w) ==
  Answer({[w EXCEPT !.profiles = {r \in @ : r.clerk_user_id # w.f.user}]}, 200)

Webhook(w) ==
  IF w.f.pc # "wh_event" THEN {}
  ELSE CASE w.f.eventType = "user.created" -> WebhookUserCreated(w)
         [] w.f.eventType = "user.updated" -> WebhookUserUpdated(w)
         [] w.f.eventType = "user.deleted" -> WebhookUserDeleted(w)
         [] OTHER -> Answer({w}, 200)

\* ------------------------------------------------- POST /api/advisor-agentic
MAX_ITERATIONS == 10

\* Tools that write (create_transaction) and tools that only read.
ToolNames == {"create_transaction", "get_spending_summary"}

StopReasons == {"tool_use", "end_turn"}

\* The baseline financial context is fetched through getAccountForUser first.
AdvisorRequest(u) ==
  CallGetAccount([IdleFrame EXCEPT !.op = "advisor", !.user = u], "a_first")

\* A response of the model: its stop_reason, the number of tool_use blocks in
\* its content and whether the content has a text block.
ModelResponses(w) ==
  {[w EXCEPT !.f.pc = "a_loop", !.f.modelCalls = @ + 1, !.f.stopReason = s,
             !.f.toolUseBlocks = n, !.f.textContent = t] :
     s \in StopReasons, n \in 0..MaxToolBlocks, t \in BOOLEAN}

\* The first model call; an AWS error answers 500.
FirstModelCall(w) ==
  ModelResponses(w) \cup Answer({[w EXCEPT !.f.modelCalls = @ + 1]}, 500)

\* Variant: the round counter is compared with <=.
LoopTestInclusive(st, it) == st = "tool_use" /\ it <= MAX_ITERATIONS

\* while (stop_reason === "tool_use" && iterations < MAX_ITERATIONS), with
\* the break on a response without tool_use blocks.
LoopTest(st, it) == st = "tool_use" /\ it < MAX_ITERATIONS

ToolLoop(w) ==
  IF LoopTest(w.f.stopReason, w.f.iterations)
  THEN IF w.f.toolUseBlocks = 0
       THEN {[w EXCEPT !.f.iterations = @ + 1, !.f.pc = "a_final"]}
       ELSE \* responseBody is not read again before the next call replaces it
            {[w EXCEPT !.f.iterations = @ + 1, !.f.pc = "a_tool",
                       !.f.txLeft = w.f.toolUseBlocks,
                       !.f.stopReason = "none", !.f.toolUseBlocks = 0,
                       !.f.textContent = FALSE]}
  ELSE {[w EXCEPT !.f.pc = "a_final"]}

\* for (const toolBlock of toolUseBlocks): executeToolCall resolves the
\* account again for every block.
NextToolBlock(w) ==
  IF w.f.txLeft = 0 THEN {[w EXCEPT !.f.pc = "a_send"]}
  ELSE {[w EXCEPT !.f = CallGetAccount([@ EXCEPT !.toolName = t, !.txLeft = @ - 1],
                                       "a_exec")] : t \in ToolNames}

\* executeToolCall after account resolution: create_transaction inserts a
\* row with source "auto" (or reports the insert's error); the other tools
\* only select.  The result joins allToolResults.
ExecuteToolCall(w) ==
  LET v == [w EXCEPT !.f.pc = "a_tool", !.f.toolResults = TRUE]
  IN IF w.f.error \/ w.f.profile = NULL \/ w.f.account = NULL THEN {v}
     ELSE IF w.f.toolName = "create_transaction"
     THEN InsertTransaction(v, "auto") \cup {v}
     ELSE {v}

\* The tool results go back to the model; a failing call is caught: 500.
LoopModelCall(w) ==
  ModelResponses(w) \cup Answer({[w EXCEPT !.f.modelCalls = @ + 1]}, 500)

\* The final response; "No response from AI" is caught and answered 500.
FinalResponse(w) ==
  IF w.f.toolResults THEN Answer({w}, 200)
  ELSE IF ~w.f.textContent THEN Answer({w}, 500)
  ELSE Answer({w}, 200)

Advisor(w) ==
  CASE w.f.pc = "a_first" -> FirstModelCall(w)
    [] w.f.pc = "a_loop" -> ToolLoop(w)
    [] w.f.pc = "a_tool" -> NextToolBlock(w)
    [] w.f.pc = "a_exec" -> ExecuteToolCall(w)
    [] w.f.pc = "a_send" -> LoopModelCall(w)
    [] w.f.pc = "a_final" -> FinalResponse(w)
    [] OTHER -> {}

\* ------------------------------------------------ composition of the steps
\* The worlds one awaited call of the invocation can lead to.
Step(w) ==
  GetAccountForUser(w) \cup EnsureProfile(w) \cup Onboarding(w) \cup AddMember(w)
    \cup RemoveMember(w) \cup PatchMember(w) \cup CreateTransaction(w) \cup Voice(w)
    \cup Advisor(w) \cup MakeCall(w) \cup Cron(w) \cup Webhook(w)
    \cup (IF w.f.pc = "q_select" THEN Aggregate(w) ELSE {})

\* The worlds in which the invocation has answered.
RECURSIVE Run(_)
Run(w) == IF w.f.pc = "done" THEN {w} ELSE UNION {Run(v) : v \in Step(w)}

\* getAccountForUser alone, run to its return.
Resolve(u) == Run(World(CallGetAccount([IdleFrame EXCEPT !.user = u], "done")))

AllIdle == \A p \in Procs : req[p].pc = "idle"

\* A whole request, start to answer, with no other request in between.
Handle(f) ==
  /\ AllIdle
  /\ f.user \in clerk
  /\ \E w \in Run(World(f)) : Commit(w)
  /\ UNCHANGED <<clerk, req, now>>

\* ------------------------------------------------------- sequential actions
DashboardStats(U) == \E u \in U : Handle(AggregationRequest("dashboard-stats", u))

Analytics(U) == \E u \in U : Handle(AggregationRequest("analytics", u))

MemberAnalytics(U) == \E u \in U : Handle(AggregationRequest("member-analytics", u))

ExportStatement(U) == \E u \in U : Handle(AggregationRequest("export-statement", u))

PostEnsureProfile(U) == \E u \in U : Handle(EnsureProfileRequest(u))

PostOnboarding(U, M) == \E u \in U, md \in M : Handle(OnboardingRequest(u, md))

PostMembers(U, E, R) == \E u \in U, e \in E, r \in R : Handle(AddMemberRequest(u, e, r))

DeleteMembers(U) == \E u \in U, i \in 1..MaxMembers : Handle(RemoveMemberRequest(u, i))

PatchMembers(U, R) ==
  \E u \in U, i \in 1..MaxMembers, r \in R : Handle(PatchMemberRequest(u, i, r))

PostCreateTransaction(U, S) ==
  \E u \in U, amt \in {0, 1}, s \in S : Handle(CreateTransactionRequest(u, amt, s))

PostVoice(U) == \E u \in U, n \in 1..MaxTx : Handle(VoiceRequest(u, n))

\* Clerk webhook, user.deleted, signature verified: the profile row is
\* deleted and nothing else; the user makes no further requests.
UserDeleted(U) ==
  /\ AllIdle
  /\ \E u \in U \cap clerk :
       /\ profiles' = {r \in profiles : r.clerk_user_id # u}
       /\ clerk' = clerk \ {u}
  /\ UNCHANGED <<accounts, members, transactions, lastProfileId, lastAccountId,
                 lastMemberId, lastTxId, req, scheduled_calls, lastCallId, now>>

\* ------------------------------------------------------ interleaved actions
\* Slot p receives a request.
Begin(p, f) ==
  /\ req[p].pc = "idle"
  /\ f.user \in clerk
  /\ req' = [req EXCEPT ![p] = f]
  /\ UNCHANGED <<profiles, accounts, members, transactions, lastProfileId,
                 lastAccountId, lastMemberId, lastTxId, clerk, scheduled_calls,
                 lastCallId, now>>

\* Slot p performs its next awaited call.
Await(p) ==
  /\ req[p].pc \notin {"idle", "done"}
  /\ \E w \in Step(World(req[p])) :
       /\ Commit(w)
       /\ req' = [req EXCEPT ![p] = w.f]
  /\ UNCHANGED <<clerk, now>>

\* Slot p sends its answer.
Respond(p) ==
  /\ req[p].pc = "done"
  /\ req' = [req EXCEPT ![p] = IdleFrame]
  /\ UNCHANGED <<profiles, accounts, members, transactions, lastProfileId,
                 lastAccountId, lastMemberId, lastTxId, clerk, scheduled_calls,
                 lastCallId, now>>

\* ----------------------------------------------------------- specifications
InviteEmails == {"", "nobody", "A@x", "B@x", " c@x"}

InviteRoles == {"undefined", "admin", "owner"}

PatchRoles == {"viewer", "owner"}

OnboardingModes == {"family"}

SourceInputs == {"undefined", "import"}

\* Requests arrive one at a time: account resolution through the aggregation
\* endpoints, provisioning, invitations and the user.deleted webhook.
Next ==
  \/ DashboardStats(Users)
  \/ Analytics(Users)
  \/ MemberAnalytics(Users)
  \/ ExportStatement(Users)
  \/ PostEnsureProfile(Users)
  \/ PostOnboarding(Users, OnboardingModes)
  \/ PostMembers(Users, InviteEmails, InviteRoles)
  \/ UserDeleted(Users)

Spec == Init /\ [][Next]_vars

\* Account creation and the members API, one request at a time.
NextMembers ==
  \/ DashboardStats(Users)
  \/ PostEnsureProfile(Users)
  \/ PostOnboarding(Users, OnboardingModes)
  \/ PostMembers(Users, {"A@x", "B@x"}, {"undefined", "admin"})
  \/ DeleteMembers(Users)
  \/ PatchMembers(Users, PatchRoles)

SpecMembers == Init /\ [][NextMembers]_vars

\* The ledger: an aggregation endpoint step by step in slot 1, between
\* transaction entries and invitations whose cleanup moves transactions and
\* deletes the invitee's account.
BeginAggregation ==
  \E op \in AggregationOps, u \in Users : Begin(1, AggregationRequest(op, u))

NextLedger ==
  \/ BeginAggregation
  \/ Await(1)
  \/ Respond(1)
  \/ PostCreateTransaction(Users, SourceInputs)
  \/ PostVoice(Users)
  \/ PostMembers(Users, {"A@x", "B@x"}, {"undefined"})

SpecLedger == Init /\ [][NextLedger]_vars

\* Family sharing: accounts are resolved, created by onboarding and shared by
\* invitations that are accepted at once.
NextSharing ==
  \/ DashboardStats(Users)
  \/ PostOnboarding(Users, OnboardingModes)
  \/ PostMembers(Users, {"A@x", "B@x"}, InviteRoles)

SpecSharing == Init /\ [][NextSharing]_vars

\* Two requests in flight, their awaited calls interleaved: either user
\* resolves the account in either slot, u2 submits the transaction form in
\* slot 1, u1 invites u2 in slot 2.
BeginResolve == \E p \in Procs, u \in Users : Begin(p, AggregationRequest("dashboard-stats", u))

BeginCreateTransaction == Begin(1, CreateTransactionRequest("u2", 1, "undefined"))

BeginAddMember == Begin(2, AddMemberRequest("u1", "B@x", "undefined"))

NextRace ==
  \/ BeginResolve
  \/ BeginCreateTransaction
  \/ BeginAddMember
  \/ \E p \in Procs : Await(p)
  \/ \E p \in Procs : Respond(p)

SpecRace == Init /\ [][NextRace]_vars

\* The transaction entry points step by step in slot 1, between invitations.
BeginEntry ==
  \/ \E u \in Users : Begin(1, CreateTransactionRequest(u, 1, "undefined"))
  \/ \E u \in Users : Begin(1, VoiceRequest(u, 1))
  \/ Begin(1, AdvisorRequest("u2"))

NextEntry ==
  \/ BeginEntry
  \/ Await(1)
  \/ Respond(1)
  \/ PostMembers(Users, {"B@x"}, {"undefined"})

SpecEntry == Init /\ [][NextEntry]_vars

\* One advisor request after another; every awaited call returns.
BeginAdvisor == Begin(1, AdvisorRequest("u1"))

NextAdvisor ==
  \/ BeginAdvisor
  \/ Await(1)
  \/ Respond(1)

SpecAdvisor == Init /\ [][NextAdvisor]_vars /\ WF_vars(Await(1))

\* Scheduled calls: make-call requests one at a time, the clock, and cron
\* triggers that may overlap (Vercel Cron or manual trigger).
PostMakeCall(U) ==
  \E u \in U, ok \in BOOLEAN, at \in {NoTime} \cup (0..MaxTime) :
    Handle(MakeCallRequest(u, ok, at))

Tick ==
  /\ now < MaxTime
  /\ now' = now + 1
  /\ UNCHANGED <<profiles, accounts, members, transactions, lastProfileId,
                 lastAccountId, lastMemberId, lastTxId, clerk, req,
                 scheduled_calls, lastCallId>>

GetProcessCalls(p) ==
  /\ req[p].pc = "idle"
  /\ req' = [req EXCEPT ![p] = CronRequest(TRUE)]
  /\ UNCHANGED <<profiles, accounts, members, transactions, lastProfileId,
                 lastAccountId, lastMemberId, lastTxId, clerk, scheduled_calls,
                 lastCallId, now>>

GetProcessCallsUnauthorized(p) ==
  /\ req[p].pc = "idle"
  /\ req' = [req EXCEPT ![p] = CronRequest(FALSE)]
  /\ UNCHANGED <<profiles, accounts, members, transactions, lastProfileId,
                 lastAccountId, lastMemberId, lastTxId, clerk, scheduled_calls,
                 lastCallId, now>>

NextCalls ==
  \/ PostMakeCall({"u1"})
  \/ Tick
  \/ \E p \in Procs : GetProcessCalls(p)
  \/ \E p \in Procs : GetProcessCallsUnauthorized(p)
  \/ \E p \in Procs : Await(p)
  \/ \E p \in Procs : Respond(p)

SpecCalls == Init /\ [][NextCalls]_vars

\* One cron invocation at a time, triggered again and again, every awaited
\* call of the running invocation returning; rejected triggers in between.
NextCron ==
  \/ PostMakeCall({"u1"})
  \/ Tick
  \/ GetProcessCalls(1)
  \/ GetProcessCallsUnauthorized(2)
  \/ Await(1)
  \/ \E p \in Procs : Respond(p)

SpecCron ==
  /\ Init /\ [][NextCron]_vars
  /\ WF_vars(GetProcessCalls(1)) /\ WF_vars(Await(1)) /\ WF_vars(Respond(1))

\* Profile resolution step by step in slot 1 (getAccountForUser through
\* dashboard-stats, and ensure-profile), between invitations, onboarding and
\* user deletions.
BeginProfileCall ==
  \/ \E u \in Users : Begin(1, AggregationRequest("dashboard-stats", u))
  \/ \E u \in Users : Begin(1, EnsureProfileRequest(u))

NextProfile ==
  \/ BeginProfileCall
  \/ Await(1)
  \/ Respond(1)
  \/ PostMembers(Users, {"A@x", "B@x"}, {"undefined"})
  \/ PostOnboarding(Users, OnboardingModes)
  \/ UserDeleted(Users)

SpecProfile == Init /\ [][NextProfile]_vars

\* The members API step by step in slot 1, valid and invalid bodies, and
\* sign-ins (ensure-profile) between its requests.
BeginMembersCall ==
  \/ \E u \in Users, e \in {"nobody", "A@x", "B@x"} :
       Begin(1, AddMemberRequest(u, e, "undefined"))
  \/ \E u \in Users, i \in 0..MaxMembers : Begin(1, RemoveMemberRequest(u, i))
  \/ \E u \in Users, i \in 0..MaxMembers : Begin(1, PatchMemberRequest(u, i, "viewer"))
  \/ \E u \in Users, i \in 1..MaxMembers : Begin(1, PatchMemberRequest(u, i, "owner"))

NextManage ==
  \/ BeginMembersCall
  \/ Await(1)
  \/ Respond(1)
  \/ PostEnsureProfile(Users)

SpecManage == Init /\ [][NextManage]_vars

\* The identity provider's webhook in slot 1: genuine events, requests without
\* the svix headers and requests whose signature does not verify.  A genuine
\* user.deleted event is sent for a user the provider has deleted.
PostClerkWebhook ==
  \E u \in Users, hdr \in BOOLEAN, sig \in BOOLEAN, type \in EventTypes :
    /\ req[1].pc = "idle"
    /\ u \in clerk
    /\ req' = [req EXCEPT ![1] = ClerkWebhook(u, hdr, sig, type)]
    /\ clerk' = IF hdr /\ sig /\ type = "user.deleted" THEN clerk \ {u} ELSE clerk
    /\ UNCHANGED <<profiles, accounts, members, transactions, lastProfileId,
                   lastAccountId, lastMemberId, lastTxId, scheduled_calls,
                   lastCallId, now>>

NextWebhook ==
  \/ PostClerkWebhook
  \/ Await(1)
  \/ Respond(1)
  \/ DashboardStats(Users)
  \/ PostEnsureProfile(Users)
  \/ PostMembers({"u1"}, {"B@x"}, {"undefined"})
  \/ DeleteMembers({"u1"})
  \/ PatchMembers({"u1"}, {"viewer"})

SpecWebhook == Init /\ [][NextWebhook]_vars

\* Invitations step by step in slot 1, the same address in two spellings, and
\* sign-ins (ensure-profile) between them.
BeginInvite ==
  \E u \in Users, e \in {"A@x", "a@x", "B@x"}, r \in {"undefined", "admin"} :
    Begin(1, AddMemberRequest(u, e, r))

NextInvite ==
  \/ BeginInvite
  \/ Await(1)
  \/ Respond(1)
  \/ PostEnsureProfile(Users)

SpecInvite == Init /\ [][NextInvite]_vars
\* ------------------------------------------------------------------ claims
ProfileIds == {r.id : r \in profiles}

AccountIds == {a.id : a \in accounts}

\* C1: getAccountForUser resolves in priority order.  Whenever it returns
\* without error for a user: if the profile has an accepted non-owner
\* membership, the result is the account of the earliest one with its role;
\* otherwise the earliest-created account the profile owns, role owner;
\* otherwise an account of an accepted membership; otherwise a new account
\* of mode individual owned by the profile, role owner.
C1_PriorityOrder ==
  \A u \in clerk : \A w \in Resolve(u) :
    ~w.f.error =>
      LET pr == w.f.profile
          invited == {m \in members : m.profile_id = pr /\ m.accepted /\ m.role # "owner"}
          owned == {a \in accounts : a.owner_id = pr}
          accepted == {m \in members : m.profile_id = pr /\ m.accepted}
      IN IF invited # {}
         THEN /\ w.f.account = Earliest(invited).account_id
              /\ w.f.role = Earliest(invited).role
         ELSE IF owned # {}
         THEN w.f.account = Earliest(owned).id /\ w.f.role = "owner"
         ELSE IF accepted # {}
         THEN w.f.account \in {m.account_id : m \in accepted}
         ELSE /\ w.f.account \notin AccountIds
              /\ w.f.role = "owner"
              /\ \E a \in w.accounts :
                   a.id = w.f.account /\ a.owner_id = pr /\ a.mode = "individual"

\* C2: under any sequence of getAccountForUser, ensure-profile, onboarding
\* set-mode and POST members calls, no profile is the owner_id of more than
\* one account.
C2_OneOwnedAccount ==
  \A r \in profiles : Cardinality({a \in accounts : a.owner_id = r.id}) <= 1

\* C3: with two invocations of getAccountForUser interleaved, a new account
\* is inserted only if its owner owns none at that moment, so the user is
\* never left with two owned accounts.
C3_CreateOnlyIfNone ==
  [][\A a \in accounts' :
       a.id \notin AccountIds => {b \in accounts : b.owner_id = a.owner_id} = {}]_vars

C5_TransactionAccountExists ==
  \A t \in transactions : t.account_id \in AccountIds

\* C6: every account_members row references an account that exists and has
\* a null profile_id or the id of a profile that exists.
C6_MemberReferences ==
  \A m \in members :
    /\ m.account_id \in AccountIds
    /\ m.profile_id = NULL \/ m.profile_id \in ProfileIds

\* C7: while the membership row of an auto-accepted invitee exists (an
\* accepted row of a profile in an account it does not own),
\* getAccountForUser for the invitee resolves to that row's account.
C7_InviteeResolvesToFamily ==
  \A m \in members :
    (/\ m.accepted
     /\ m.profile_id # NULL
     /\ \A a \in accounts : a.id = m.account_id => a.owner_id # m.profile_id)
    => \A r \in profiles : r.id = m.profile_id =>
         \A w \in Resolve(r.clerk_user_id) : ~w.f.error => w.f.account = m.account_id

\* C8: every transaction row an entry point inserts has account_id equal to
\* the account getAccountForUser resolved for the caller in that request and
\* added_by equal to the caller's profile id.
C8_InsertedForResolvedAccount ==
  [][\A t \in transactions' :
       t.id \notin {s.id : s \in transactions} =>
         /\ req[1].op \in {"create-transaction", "voice", "advisor"}
         /\ req[1].via # "none"
         /\ t.account_id = req[1].account
         /\ t.added_by = req[1].profile
         /\ \E r \in profiles : r.id = t.added_by /\ r.clerk_user_id = req[1].user]_vars

\* C8 witness: the advisor's tool has inserted a transaction for a caller
\* who resolves to an account owned by somebody else.
C8_Witness ==
  /\ req[1].op = "advisor"
  /\ req[1].via = "invited"
  /\ \E t \in transactions :
       /\ t.source = "auto"
       /\ t.id = lastTxId
       /\ t.added_by = req[1].profile
       /\ \E a \in accounts : a.id = t.account_id /\ a.owner_id # t.added_by

\* C9 as stated: a call to an aggregation endpoint leaves profiles, accounts,
\* account_members and transactions unchanged.
C9_ReadOnly ==
  [][req[1].op \in AggregationOps =>
       UNCHANGED <<profiles, accounts, members, transactions>>]_vars

\* C9 amended: a call to an aggregation endpoint leaves transactions
\* unchanged and deletes no row; its only writes are those of
\* getAccountForUser for the caller (the caller's profile, a new account of
\* mode individual owned by it, the owner row of the caller's own account);
\* the endpoint's own queries change nothing.
C9_OnlyProvisioningWrites ==
  [][req[1].op \in AggregationOps =>
       /\ transactions' = transactions
       /\ profiles \subseteq profiles'
       /\ \A r \in profiles' \ profiles : r.clerk_user_id = req[1].user
       /\ accounts \subseteq accounts'
       /\ \A a \in accounts' \ accounts :
            a.mode = "individual" /\ a.owner_id = req[1].profile
       /\ {m.id : m \in members} \subseteq {m.id : m \in members'}
       /\ \A m \in members' \ members :
            /\ m.role = "owner"
            /\ m.profile_id = req[1].profile
            /\ \E a \in accounts : a.id = m.account_id /\ a.owner_id = m.profile_id
       /\ req[1].pc = "q_select" =>
            UNCHANGED <<profiles, accounts, members, transactions>>]_vars

\* C9 witness: an aggregation call has answered after getAccountForUser
\* created the caller's account, with transactions in the ledger.
C9_Witness ==
  /\ req[1].op \in AggregationOps
  /\ req[1].pc = "done"
  /\ req[1].via = "created"
  /\ transactions # {}

\* C10: the advisor's tool-use loop runs at most 10 rounds, with at most 11
\* model calls in all, and the request then answers, whatever the model
\* responds.
C10_BoundedLoop ==
  /\ [](req[1].iterations <= 10 /\ req[1].modelCalls <= 11)
  /\ (req[1].op = "advisor") ~> (req[1].op = "advisor" /\ req[1].pc = "done")

\* C10 witness: the model answered tool_use every time; the request
\* answered after the tenth round and the eleventh model call.
C10_Witness ==
  /\ req[1].op = "advisor"
  /\ req[1].pc = "done"
  /\ req[1].stopReason = "tool_use"
  /\ req[1].iterations = 10
  /\ req[1].modelCalls = 11

\* C11: every scheduled_calls row has status pending, completed or failed,
\* and a status only ever changes from pending to completed or from pending
\* to failed: a completed or failed row keeps its status.
C11_StatusFinal ==
  [][/\ \A c \in scheduled_calls' : c.status \in CallStatus
     /\ \A c \in scheduled_calls : \A d \in scheduled_calls' :
          (c.id = d.id /\ c.status # d.status) => c.status = "pending"]_vars

MemberOps == {"members-post", "members-delete", "members-patch"}

\* The roles getAccountForUser resolves for u in the current state.
CallerRoles(u) == {w.f.role : w \in Resolve(u)}

Restricted(u) == CallerRoles(u) # {} /\ CallerRoles(u) \subseteq {"member", "viewer"}

\* The body fails the handler's validation: POST without an address holding
\* "@", DELETE or PATCH without a memberId.
InvalidBody(f) ==
  IF f.op = "members-post" THEN f.inEmail = "" \/ ~HasAt(f.inEmail)
  ELSE f.memberId = NULL

C16_SourceTag == \A t \in transactions : t.source \in TransactionSource

InvitedElsewhere(pr) ==
  {m \in InvitedMemberships(members, pr) :
     \A a \in accounts : a.id = m.account_id => a.owner_id # pr}

C19_OwnerRowProtected ==
  /\ [](\A p \in Procs :
          (/\ req[p].op = "members-delete" /\ req[p].pc = "done"
           /\ req[p].cont = "none" /\ ~req[p].error /\ CanManage(req[p].role)
           /\ \E m \in members : /\ m.id = req[p].memberId
                                  /\ m.account_id = req[p].account
                                  /\ m.role = "owner")
          => req[p].status = 403)
  /\ [][\A p \in Procs :
          req[p].op \in {"members-delete", "members-patch"}
          => /\ \A m \in members :
                  m.role = "owner"
                  => \E n \in members' : n.id = m.id /\ n.role = "owner"
             /\ req[p].op = "members-patch"
                => \A m \in members : \A n \in members' :
                     (n.id = m.id /\ n.role # m.role) => n.role \in ValidRoles]_vars

C19_Witness ==
  \E p \in Procs :
    /\ req[p].op = "members-delete" /\ req[p].pc = "done" /\ req[p].status = 403
    /\ CanManage(req[p].role)
    /\ \E m \in members : m.id = req[p].memberId /\ m.role = "owner"
    /\ \E m \in members : m.role = "viewer"

\* C20: each account has at most one account_members row of role owner, and
\* that row belongs to the account's owner_id, whatever the bodies POSTed to
\* /api/members.
C20_SingleOwnerRow ==
  \A a \in accounts :
    LET rows == {m \in members : m.account_id = a.id /\ m.role = "owner"}
    IN Cardinality(rows) <= 1 /\ \A m \in rows : m.profile_id = a.owner_id

\* The request f asks for an address that POST /api/members refuses: the
\* caller's own, one a row of the caller's account was invited by, or one of a
\* profile that has a row in the caller's account.
AlreadyThere(f) ==
  LET e == NormalizedEmail(f.inEmail)
      rows == {m \in members : m.account_id = f.account}
  IN \/ ToLower(f.email) = e
     \/ \E m \in rows : ToLower(m.invited_email) = e
     \/ \E r \in profiles : r.email = e /\ \E m \in rows : m.profile_id = r.id

\* C21: an account has at most one membership row per invited address
\* (letter case ignored) and at most one row per profile; a POST /api/members
\* for the caller's own address, for an address already invited or for a
\* profile already a member answers 409, and a POST inserts a row only when
\* none of these holds.
C21_NoDuplicateMembers ==
  /\ [](\A a \in accounts : \A m \in members : \A n \in members :
          (m.account_id = a.id /\ n.account_id = a.id /\ m.id # n.id)
          => /\ m.invited_email # "" => ToLower(m.invited_email) # ToLower(n.invited_email)
             /\ m.profile_id # NULL => m.profile_id # n.profile_id)
  /\ [](\A p \in Procs :
          (/\ req[p].op = "members-post" /\ req[p].pc = "done"
           /\ req[p].account # NULL /\ CanManage(req[p].role)
           /\ req[p].memberId = NULL /\ AlreadyThere(req[p]))
          => req[p].status = 409)
  /\ [][\A p \in Procs :
          (/\ req[p].op = "members-post" /\ req[p].cont = "none"
           /\ lastMemberId' # lastMemberId)
          => ~AlreadyThere(req[p])]_vars

C21_Witness ==
  \E p \in Procs :
    /\ req[p].op = "members-post" /\ req[p].pc = "done" /\ req[p].status = 409
    /\ req[p].inEmail = "A@x" /\ req[p].role = "admin"
    /\ \E m \in members : /\ m.account_id = req[p].account
                           /\ m.invited_email = "a@x" /\ m.role # "owner"

\* C22: when POST /api/ensure-profile has answered 200 for a profile with a
\* non-empty address, every row invited by that address has a profile_id and
\* is accepted; the rows it links get the caller's profile and accepted
\* true; and it inserts an account only for a profile that has no accepted
\* membership.
C22_InvitationsLinked ==
  /\ [](\A p \in Procs :
          (/\ req[p].op = "ensure-profile" /\ req[p].pc = "done"
           /\ req[p].status = 200 /\ req[p].email # "")
          => \A m \in members :
               m.invited_email = ToLower(req[p].email)
               => m.profile_id # NULL /\ m.accepted)
  /\ [][\A p \in Procs :
          req[p].op = "ensure-profile"
          => /\ \A m \in members : \A n \in members' :
                  (n.id = m.id /\ m.profile_id = NULL /\ n.profile_id # NULL)
                  => (n.profile_id = req[p].profile /\ n.accepted)
             /\ accounts' # accounts
                => AcceptedMemberships(members, req[p].profile) = {}]_vars

C22_Witness ==
  \E p \in Procs :
    /\ req[p].op = "ensure-profile" /\ req[p].pc = "done" /\ req[p].status = 200
    /\ \E m \in members :
         /\ m.invited_email = ToLower(req[p].email) /\ m.role # "owner"
         /\ m.profile_id = req[p].profile /\ m.accepted
    /\ OwnedAccounts(accounts, req[p].profile) = {}

\* C23: when a POST /api/members auto-accepts a profile into the caller's
\* account and cleanupPersonalAccount has run, every transaction of an
\* account the profile owned (other than the family account) has the family
\* account's id, the transactions are the same in number and ids, the
\* profile owns no account other than possibly the family account, and the
\* family account still exists.
C23_CleanupKeepsTransactions ==
  [][\A m \in members' :
       (/\ m.id > lastMemberId /\ m.accepted /\ m.profile_id # NULL
        /\ \A a \in accounts' : a.id = m.account_id => a.owner_id # m.profile_id)
       => LET owned == {a.id : a \in OwnedAccounts(accounts, m.profile_id)} \ {m.account_id}
          IN /\ \A t \in transactions :
                  t.account_id \in owned
                  => \E s \in transactions' : s.id = t.id /\ s.account_id = m.account_id
             /\ {t.id : t \in transactions'} = {t.id : t \in transactions}
             /\ Cardinality(transactions') = Cardinality(transactions)
             /\ \A a \in OwnedAccounts(accounts', m.profile_id) : a.id = m.account_id
             /\ \E a \in accounts' : a.id = m.account_id]_vars

C23_Witness ==
  \E m \in members : \E t \in transactions :
    /\ m.accepted /\ m.role # "owner" /\ m.profile_id # NULL
    /\ t.account_id = m.account_id /\ t.added_by = m.profile_id
    /\ t.id < lastTxId
    /\ OwnedAccounts(accounts, m.profile_id) = {}
    /\ lastAccountId > Cardinality(accounts)
    /\ AllIdle

====
